---------------------------- MODULE Spec2Model ----------------------------
(***************************************************************************)
(* Model of geo-normalized (src/src/lib.rs): the Normalized trait and its  *)
(* three implementations, for Polygon, MultiPolygon and                    *)
(* GeometryCollection.                                                     *)
(*                                                                         *)
(* The library is a set of pure functions.  A behaviour of the model is a  *)
(* caller that holds one geometry value, calls normalized() on it and then *)
(* calls normalized() on the result.                                       *)
(*                                                                         *)
(* Coordinates are pairs <<x, y>> of integers.  lib.rs is generic over     *)
(* T: Float + CoordNum + GeoNum; the only arithmetic on coordinates is the *)
(* orientation predicate of geo's kernel, which for floats is the robust   *)
(* (exact sign) predicate, so small integers give the same signs.  NaN and *)
(* infinities are outside the model.                                       *)
(*                                                                         *)
(* lib.rs decides every ring through geo's Winding trait (line 1): the     *)
(* calls points_cw() (line 93) and points_ccw() (line 102).  Their         *)
(* behaviour is that of the geo crate whose API lib.rs imports (CoordNum,  *)
(* GeoNum, Coordinate): winding_order() looks at the turn made at the      *)
(* lexicographically least coordinate of the ring.  The definitions        *)
(* is_closed .. points_ccw below model that crate's code as called here.   *)
(***************************************************************************)
EXTENDS Integers, Sequences, FiniteSets

VARIABLES
    input,      \* the geometry the caller holds: [tag, v]
    once,       \* input.normalized(), or NoValue
    twice,      \* input.normalized().normalized(), or NoValue
    panicked,   \* an unwrap() of None was reached
    pc          \* "input", "once", "twice", or "aborted" after a panic

vars == <<input, once, twice, panicked, pc>>

----------------------------------------------------------------------------
(* Bounds of the inputs *)

\* longest ring handed to Polygon::new, before it is closed
MaxLen == 5
\* most interior rings of a polygon
MaxHoles == 2
\* most polygons of a multi-polygon
MaxPolys == 2
\* most geometries of a geometry collection
MaxGeoms == 2

----------------------------------------------------------------------------
(* geo-types: Coordinate, LineString, Polygon *)

Reverse(s) == [i \in 1..Len(s) |-> s[Len(s) + 1 - i]]

\* LineString::is_closed: first() == last(); an empty line string is closed
is_closed(ls) == Len(ls) = 0 \/ ls[1] = ls[Len(ls)]

\* LineString::close: push the first coordinate unless already closed
close(ls) == IF is_closed(ls) THEN ls ELSE Append(ls, ls[1])

\* Polygon::new closes the exterior and every interior
PolygonNew(exterior, interiors) ==
    [exterior  |-> close(exterior),
     interiors |-> [i \in 1..Len(interiors) |-> close(interiors[i])]]

----------------------------------------------------------------------------
(* geo::algorithm::winding_order, as called from normalized_polygon *)

None == "None"
Clockwise == "Clockwise"
CounterClockwise == "CounterClockwise"
Collinear == "Collinear"

\* utils::lex_cmp(p, q) == Ordering::Greater
lex_greater(p, q) == p[1] > q[1] \/ (p[1] = q[1] /\ p[2] > q[2])

\* Iterator::min_by over the enumerated coordinates: a later element replaces
\* the current minimum only when the current one compares Greater
RECURSIVE least_from(_, _, _)
least_from(ls, best, k) ==
    IF k > Len(ls) THEN best
    ELSE least_from(ls, IF lex_greater(ls[best], ls[k]) THEN k ELSE best, k + 1)

\* utils::least_index (1-based here); callers guarantee a non-empty slice
least_index(ls) == least_from(ls, 1, 2)

\* the closures increment / decrement of winding_order, on 1-based indices
increment(ls, x) == IF x + 1 > Len(ls) THEN 1 ELSE x + 1
decrement(ls, x) == IF x = 1 THEN Len(ls) ELSE x - 1

\* while ls[next] == ls[i] { if next == i { return None }; increment(next) }
\* 0 stands for the early return
RECURSIVE next_distinct(_, _, _)
next_distinct(ls, i, next) ==
    IF ls[next] = ls[i]
    THEN IF next = i THEN 0 ELSE next_distinct(ls, i, increment(ls, next))
    ELSE next

\* while ls[prev] == ls[i] { decrement(prev) }
RECURSIVE prev_distinct(_, _, _)
prev_distinct(ls, i, prev) ==
    IF ls[prev] = ls[i] THEN prev_distinct(ls, i, decrement(ls, prev)) ELSE prev

\* robust::orient2d(p, q, r): positive when p, q, r turn counter-clockwise
orient2d_det(p, q, r) ==
    (p[1] - r[1]) * (q[2] - r[2]) - (p[2] - r[2]) * (q[1] - r[1])

\* Kernel::orient2d
orient2d(p, q, r) ==
    LET d == orient2d_det(p, q, r)
    IN  IF d < 0 THEN Clockwise
        ELSE IF d > 0 THEN CounterClockwise
        ELSE Collinear

\* the match of winding_order on the kernel's answer
winding_of_turn(o) ==
    IF o = CounterClockwise THEN CounterClockwise
    ELSE IF o = Clockwise THEN Clockwise
    ELSE None

\* Winding::winding_order for LineString
winding_order(ls) ==
    IF Len(ls) < 4 \/ ~is_closed(ls) THEN None
    ELSE LET i    == least_index(ls)
             next == next_distinct(ls, i, increment(ls, i))
         IN  IF next = 0 THEN None
             ELSE LET prev == prev_distinct(ls, i, decrement(ls, i))
                  IN  winding_of_turn(orient2d(ls[prev], ls[i], ls[next]))

\* Winding::points_cw: the points in reverse when the order is counter-clockwise
points_cw(ls) ==
    IF winding_order(ls) = CounterClockwise THEN Reverse(ls) ELSE ls

\* Winding::points_ccw: the points in reverse when the order is clockwise
points_ccw(ls) ==
    IF winding_order(ls) = Clockwise THEN Reverse(ls) ELSE ls

----------------------------------------------------------------------------
(* lib.rs *)

\* normalized_polygon that reverses the exterior whatever its order
normalized_polygon_always_reversed(poly) ==
    PolygonNew(Reverse(poly.exterior),
               [i \in 1..Len(poly.interiors) |-> points_ccw(poly.interiors[i])])

\* normalized_polygon that reverses every ring not found in the wanted order
normalized_polygon_unless_ordered(poly) ==
    PolygonNew(IF winding_order(poly.exterior) = Clockwise
               THEN poly.exterior ELSE Reverse(poly.exterior),
               [i \in 1..Len(poly.interiors) |->
                   IF winding_order(poly.interiors[i]) = CounterClockwise
                   THEN poly.interiors[i] ELSE Reverse(poly.interiors[i])])

\* normalized_polygon with points_ccw on the exterior and points_cw on the holes
normalized_polygon_swapped(poly) ==
    PolygonNew(points_ccw(poly.exterior),
               [i \in 1..Len(poly.interiors) |-> points_cw(poly.interiors[i])])

\* normalized_polygon that treats every interior ring like the exterior
normalized_polygon_holes_cw(poly) ==
    PolygonNew(points_cw(poly.exterior),
               [i \in 1..Len(poly.interiors) |-> points_cw(poly.interiors[i])])

\* normalized_polygon that leaves the interior rings behind
normalized_polygon_no_holes(poly) ==
    PolygonNew(points_cw(poly.exterior), <<>>)

\* normalized_polygon (lines 89-109)
normalized_polygon(poly) ==
    PolygonNew(points_cw(poly.exterior),
               [i \in 1..Len(poly.interiors) |-> points_ccw(poly.interiors[i])])

\* impl Normalized for Polygon (lines 80-84)
PolygonNormalized(poly) == normalized_polygon(poly)

\* MultiPolygon::normalized that collects the polygons back to front
MultiPolygonNormalized_reversed(mp) ==
    [i \in 1..Len(mp) |-> PolygonNormalized(mp[Len(mp) + 1 - i])]

\* impl Normalized for MultiPolygon (lines 69-78): map over the polygons, in order
MultiPolygonNormalized(mp) == [i \in 1..Len(mp) |-> PolygonNormalized(mp[i])]

\* Geometry::into_polygon: Some(payload) for the Polygon variant, None otherwise
into_polygon(g) ==
    IF g.tag = "Polygon" THEN [some |-> TRUE, v |-> g.v] ELSE [some |-> FALSE]

\* Geometry::into_multi_polygon: Some(payload) for MultiPolygon, None otherwise
into_multi_polygon(g) ==
    IF g.tag = "MultiPolygon" THEN [some |-> TRUE, v |-> g.v] ELSE [some |-> FALSE]

\* the value of a closure call that ended in unwrap() on None
Panic == [tag |-> "Panic"]

RECURSIVE GeometryCollectionNormalized(_)

\* the closure with the extraction of its two arms exchanged
normalized_geometry_wrong_extraction(p) ==
    IF p.tag = "Polygon"
    THEN LET o == into_multi_polygon(p)
         IN  IF o.some THEN [tag |-> "Polygon", v |-> PolygonNormalized(o.v)] ELSE Panic
    ELSE IF p.tag = "MultiPolygon"
    THEN LET o == into_polygon(p)
         IN  IF o.some THEN [tag |-> "MultiPolygon", v |-> MultiPolygonNormalized(o.v)]
             ELSE Panic
    ELSE p

\* the closure with a catch-all arm that leaves every element as it is
normalized_geometry_passthrough(p) == p

\* the closure with an arm that recurses into a nested collection
normalized_geometry_deep(p) ==
    IF p.tag = "Polygon"
    THEN [tag |-> "Polygon", v |-> PolygonNormalized(p.v)]
    ELSE IF p.tag = "MultiPolygon"
    THEN [tag |-> "MultiPolygon", v |-> MultiPolygonNormalized(p.v)]
    ELSE IF p.tag = "GeometryCollection"
    THEN [tag |-> "GeometryCollection", v |-> GeometryCollectionNormalized(p.v).v]
    ELSE p

\* the closure of GeometryCollection::normalized (lines 53-61): one element
normalized_geometry(p) ==
    IF p.tag = "Polygon"
    THEN LET o == into_polygon(p)
         IN  IF o.some THEN [tag |-> "Polygon", v |-> PolygonNormalized(o.v)] ELSE Panic
    ELSE IF p.tag = "MultiPolygon"
    THEN LET o == into_multi_polygon(p)
         IN  IF o.some THEN [tag |-> "MultiPolygon", v |-> MultiPolygonNormalized(o.v)]
             ELSE Panic
    ELSE p

\* impl Normalized for GeometryCollection (lines 48-65): map and collect; a
\* panic in the closure unwinds out of the call
GeometryCollectionNormalized(gc) ==
    LET mapped == [i \in 1..Len(gc) |-> normalized_geometry(gc[i])]
    IN  IF \E i \in 1..Len(gc) : mapped[i] = Panic
        THEN [panicked |-> TRUE, v |-> <<>>]
        ELSE [panicked |-> FALSE, v |-> mapped]

\* fn normalized(&self) -> Self (line 43), by the type of the receiver
Normalized(g) ==
    IF g.tag = "Polygon"
    THEN [panicked |-> FALSE, v |-> PolygonNormalized(g.v)]
    ELSE IF g.tag = "MultiPolygon"
    THEN [panicked |-> FALSE, v |-> MultiPolygonNormalized(g.v)]
    ELSE GeometryCollectionNormalized(g.v)

----------------------------------------------------------------------------
(* The inputs *)

Coords == (0..1) \X (0..1)

\* a wider grid: three collinear coordinates and non-convex rings fit in it
WideCoords == (0..2) \X (0..2)

Corners == {<<1, 1>>, <<0, 1>>}

Seqs(S, lo, hi) == UNION {[1..n -> S] : n \in lo..hi}

\* coordinate lists a caller hands to Polygon::new, open or closed
RawRings == Seqs(Coords, 0, MaxLen)

\* the lists of distinct coordinates, one shorter than the longest, on the
\* wider grid
WideRings ==
    {r \in [1..(MaxLen - 1) -> WideCoords] :
        \A i, j \in 1..(MaxLen - 1) : i < j => r[i] # r[j]}

\* all the vertices of the ring lie on one line (so also: fewer than three
\* distinct vertices)
AllCollinear(ring) ==
    \A a, b, c \in 1..Len(ring) : orient2d_det(ring[a], ring[b], ring[c]) = 0

\* the coordinates a list goes through
CoordsOf(ring) == {ring[i] : i \in 1..Len(ring)}

\* the eight lines of three coordinates of the wider grid
Lines ==
    {L \in SUBSET WideCoords :
        /\ Cardinality(L) = 3
        /\ \A p, q, r \in L : orient2d_det(p, q, r) = 0}

\* the lists that stay on one of these lines, going back and forth along it
LineRings == UNION {Seqs(L, 3, MaxLen - 1) : L \in Lines}

\* three distinct coordinates of one line, starting from the middle of the grid
LineExteriors ==
    {r \in LineRings :
        Len(r) = 3 /\ Cardinality(CoordsOf(r)) = 3 /\ r[1] = <<1, 1>>}

\* three coordinates starting at the origin: clockwise, counter-clockwise
\* and degenerate triangles
SmallRings == {r \in [1..3 -> Coords] : r[1] = <<0, 0>>}

\* the small rings that end at <<1, 1>>: a triangle in each order and two
\* degenerate ones
ExteriorRings == {r \in SmallRings : r[3] = <<1, 1>>}

\* the small rings through <<1, 1>> and <<0, 1>> only: two degenerate ones and
\* a triangle in each order
TinyRings == {r \in SmallRings : r[2] \in Corners /\ r[3] \in Corners}

\* the polygons of the tests of lib.rs (lines 163-287), as polygon! builds them
OuterCw == <<(<<0, 0>>), <<0, 50>>, <<50, 50>>, <<50, 0>>>>
OuterCcw == <<(<<0, 0>>), <<50, 0>>, <<50, 50>>, <<0, 50>>>>
InnerCw == <<(<<10, 10>>), <<10, 20>>, <<20, 20>>, <<20, 10>>>>
InnerCcw == <<(<<10, 10>>), <<20, 10>>, <<20, 20>>, <<10, 20>>>>

get_bad_outer_poly ==
    [good |-> PolygonNew(<<(<<1, 1>>), <<1, 4>>, <<4, 4>>, <<4, 1>>, <<1, 1>>>>, <<>>),
     bad  |-> PolygonNew(<<(<<1, 1>>), <<4, 1>>, <<4, 4>>, <<1, 4>>, <<1, 1>>>>, <<>>)]

get_good_outer_bad_inner_poly ==
    [good |-> PolygonNew(OuterCw, <<InnerCcw>>),
     bad  |-> PolygonNew(OuterCw, <<InnerCw>>)]

get_bad_outer_bad_inner_poly ==
    [good |-> PolygonNew(OuterCw, <<InnerCcw>>),
     bad  |-> PolygonNew(OuterCcw, <<InnerCw>>)]

get_bad_outer_good_inner_poly ==
    [good |-> PolygonNew(OuterCw, <<InnerCcw>>),
     bad  |-> PolygonNew(OuterCcw, <<InnerCcw>>)]

TestPairs ==
    {get_bad_outer_poly, get_good_outer_bad_inner_poly,
     get_bad_outer_bad_inner_poly, get_bad_outer_good_inner_poly}

\* polygons: those of the tests; any exterior without holes; a small exterior
\* with any one hole; an exterior on one line with a hole on one line; a small
\* exterior with several tiny holes
Polygons ==
    {t.good : t \in TestPairs} \cup {t.bad : t \in TestPairs}
    \cup {PolygonNew(r, <<>>) : r \in RawRings \cup WideRings \cup LineRings}
    \cup {PolygonNew(t, <<r>>) : t \in LineExteriors, r \in LineRings}
    \cup {PolygonNew(t, <<r>>) : t \in ExteriorRings, r \in RawRings}
    \cup {PolygonNew(t, hs) : t \in SmallRings, hs \in Seqs(TinyRings, 2, MaxHoles)}

\* out to <<0, 1>>, back to the origin and out again: rings that come back
\* to their least coordinate
SpikeRings ==
    {r \in [1..4 -> Coords] : r[1] = <<0, 0>> /\ r[2] = <<0, 1>> /\ r[3] = <<0, 0>>}

\* the polygons of multi-polygons
MemberPolygons ==
    {PolygonNew(t, <<>>) : t \in TinyRings \cup SpikeRings}
    \cup {PolygonNew(t, <<h>>) : t \in TinyRings, h \in TinyRings}

\* the multi-polygon of can_process_multi_polygon (line 156), and the bounded ones
MultiPolygons ==
    {<<get_bad_outer_good_inner_poly.good, get_bad_outer_good_inner_poly.bad>>}
    \cup Seqs(MemberPolygons, 0, MaxPolys)

G(tag, v) == [tag |-> tag, v |-> v]

TinyPolygons == {PolygonNew(t, <<>>) : t \in TinyRings}

\* the members of a nested collection
NestedMembers ==
    {G("Polygon", p) : p \in TinyPolygons}
    \cup {G("MultiPolygon", <<p>>) : p \in TinyPolygons}

\* the geometries of a collection: every variant of geo_types::Geometry
Geometries ==
    {G("Point", c) : c \in Corners}
    \cup {G("Line", <<(<<0, 0>>), <<1, 1>>>>)}
    \cup {G("LineString", t) : t \in TinyRings}
    \cup {G("Polygon", p) : p \in TinyPolygons}
    \cup {G("MultiPoint", cs) : cs \in Seqs(Corners, 0, 1)}
    \cup {G("MultiLineString", <<>>), G("MultiLineString", <<(<<(<<0, 0>>), <<1, 1>>>>)>>)}
    \cup {G("MultiPolygon", ps) : ps \in Seqs(TinyPolygons, 0, 1)}
    \cup {G("Rect", [min |-> <<0, 0>>, max |-> <<1, 1>>])}
    \cup {G("Triangle", <<(<<0, 0>>), <<1, 0>>, <<1, 1>>>>)}
    \cup {G("GeometryCollection", gs) : gs \in Seqs(NestedMembers, 0, 1)}

GeometryCollections == Seqs(Geometries, 0, MaxGeoms)

NoValue == [tag |-> "NoValue"]

----------------------------------------------------------------------------
(* The caller *)

Init ==
    /\ input \in {G("Polygon", p) : p \in Polygons}
                 \cup {G("MultiPolygon", mp) : mp \in MultiPolygons}
                 \cup {G("GeometryCollection", gc) : gc \in GeometryCollections}
    /\ once = NoValue
    /\ twice = NoValue
    /\ panicked = FALSE
    /\ pc = "input"

\* what a call that returned r leaves with the caller
Returned(tag, r) ==
    /\ panicked' = r.panicked
    /\ once' = IF r.panicked THEN NoValue ELSE G(tag, r.v)
    /\ pc' = IF r.panicked THEN "aborted" ELSE "once"
    /\ UNCHANGED <<input, twice>>

\* polygon.normalized()
NormalizePolygon ==
    /\ pc = "input"
    /\ input.tag = "Polygon"
    /\ Returned("Polygon", [panicked |-> FALSE, v |-> PolygonNormalized(input.v)])

\* multi_polygon.normalized()
NormalizeMultiPolygon ==
    /\ pc = "input"
    /\ input.tag = "MultiPolygon"
    /\ Returned("MultiPolygon",
                [panicked |-> FALSE, v |-> MultiPolygonNormalized(input.v)])

\* geometry_collection.normalized()
NormalizeGeometryCollection ==
    /\ pc = "input"
    /\ input.tag = "GeometryCollection"
    /\ Returned("GeometryCollection", GeometryCollectionNormalized(input.v))

\* the second call, on the result of the first
NormalizeAgain ==
    /\ pc = "once"
    /\ LET r == Normalized(once)
       IN  /\ panicked' = r.panicked
           /\ twice' = IF r.panicked THEN NoValue ELSE G(once.tag, r.v)
           /\ pc' = IF r.panicked THEN "aborted" ELSE "twice"
    /\ UNCHANGED <<input, once>>

Next ==
    \/ NormalizePolygon
    \/ NormalizeMultiPolygon
    \/ NormalizeGeometryCollection
    \/ NormalizeAgain

Spec == Init /\ [][Next]_vars

----------------------------------------------------------------------------
(* Definitions the properties are stated with *)

\* the shoelace sum of a ring: x_i * y_{i+1} - x_{i+1} * y_i over the
\* consecutive pairs; negative is clockwise, positive counter-clockwise
RECURSIVE shoelace_from(_, _)
shoelace_from(ring, k) ==
    IF k >= Len(ring) THEN 0
    ELSE ring[k][1] * ring[k + 1][2] - ring[k + 1][1] * ring[k][2]
         + shoelace_from(ring, k + 1)

shoelace(ring) == shoelace_from(ring, 1)

Sign(v) == IF v > 0 THEN 1 ELSE IF v < 0 THEN -1 ELSE 0

Between(a, b, x) == (a <= x /\ x <= b) \/ (b <= x /\ x <= a)

\* r lies on the segment from p to q
OnSegment(p, q, r) ==
    /\ orient2d_det(p, q, r) = 0
    /\ Between(p[1], q[1], r[1])
    /\ Between(p[2], q[2], r[2])

\* the closed segments p1-q1 and p2-q2 have a point in common
SegmentsMeet(p1, q1, p2, q2) ==
    \/ /\ Sign(orient2d_det(p1, q1, p2)) * Sign(orient2d_det(p1, q1, q2)) < 0
       /\ Sign(orient2d_det(p2, q2, p1)) * Sign(orient2d_det(p2, q2, q1)) < 0
    \/ OnSegment(p1, q1, p2) \/ OnSegment(p1, q1, q2)
    \/ OnSegment(p2, q2, p1) \/ OnSegment(p2, q2, q1)

\* the edges v-u and v-w leave v in the same direction
Overlap(u, v, w) ==
    /\ orient2d_det(u, v, w) = 0
    /\ (u[1] - v[1]) * (w[1] - v[1]) + (u[2] - v[2]) * (w[2] - v[2]) > 0

\* a simple ring: closed, at least three vertices, no vertex visited twice
\* and no two edges meeting except consecutive ones at their common vertex
IsSimple(ring) ==
    LET m == Len(ring) - 1
    IN  /\ Len(ring) >= 4
        /\ is_closed(ring)
        /\ \A k, l \in 1..m : k < l => ring[k] # ring[l]
        /\ \A k, l \in 1..m : k < l =>
              IF l = k + 1 THEN ~Overlap(ring[k], ring[l], ring[l + 1])
              ELSE IF k = 1 /\ l = m THEN ~Overlap(ring[2], ring[1], ring[m])
              ELSE ~SegmentsMeet(ring[k], ring[k + 1], ring[l], ring[l + 1])

\* the lexicographically least coordinate of a non-empty ring
LeastCoord(ring) ==
    CHOOSE c \in {ring[k] : k \in 1..Len(ring)} :
        \A k \in 1..Len(ring) : ~lex_greater(c, ring[k])

\* the ring goes through its least coordinate once: it does not come back to
\* it after leaving it
LeastVisitedOnce(ring) ==
    \/ Len(ring) = 0
    \/ Cardinality({k \in 1..Len(ring) :
           /\ ring[k] = LeastCoord(ring)
           /\ ring[increment(ring, k)] # LeastCoord(ring)}) <= 1

\* the two rings hold each coordinate the same number of times
SameCoords(r1, r2) ==
    \A c \in {r1[k] : k \in 1..Len(r1)} \cup {r2[k] : k \in 1..Len(r2)} :
        Cardinality({k \in 1..Len(r1) : r1[k] = c})
            = Cardinality({k \in 1..Len(r2) : r2[k] = c})

\* the rings of a polygon, the exterior at 0 and interior i at i
RingIds(poly) == 0..Len(poly.interiors)
RingAt(poly, k) == IF k = 0 THEN poly.exterior ELSE poly.interiors[k]

\* the order a ring is to have at position k: clockwise (-1) for the
\* exterior, counter-clockwise (1) for an interior
Wanted(k) == IF k = 0 THEN -1 ELSE 1
WantedOrder(k) == IF k = 0 THEN Clockwise ELSE CounterClockwise
UnwantedOrder(k) == IF k = 0 THEN CounterClockwise ELSE Clockwise

\* the exterior is clockwise and every interior counter-clockwise by the
\* shoelace sign
ShoelaceOriented(poly) ==
    \A k \in RingIds(poly) : Sign(shoelace(RingAt(poly, k))) = Wanted(k)

\* a ring the data model admits as input of the orientation test: closed, at
\* least four coordinates, at least three distinct vertices
Admitted(ring) ==
    /\ Len(ring) >= 4
    /\ is_closed(ring)
    /\ Cardinality({ring[k] : k \in 1..Len(ring)}) >= 3

AllAdmitted(poly) == \A k \in RingIds(poly) : Admitted(RingAt(poly, k))

AllSimple(poly) == \A k \in RingIds(poly) : IsSimple(RingAt(poly, k))

\* q is p with some of its rings listed backwards
Rewound(q, p) ==
    /\ Len(q.interiors) = Len(p.interiors)
    /\ \A k \in RingIds(p) :
          RingAt(q, k) \in {RingAt(p, k), Reverse(RingAt(p, k))}

\* a polygon was normalized: input.v is the polygon, once.v the result
PolygonDone == pc \in {"once", "twice"} /\ input.tag = "Polygon"
MultiPolygonDone == pc \in {"once", "twice"} /\ input.tag = "MultiPolygon"
CollectionDone == pc \in {"once", "twice"} /\ input.tag = "GeometryCollection"

----------------------------------------------------------------------------
(* The properties *)

\* C1, as stated: in Polygon::normalized(P) the exterior ring is clockwise and
\* every interior ring counter-clockwise by the sign of the shoelace sum, for
\* every polygon P; here already for the polygons whose rings are all closed
\* rings of at least three distinct vertices.
C1_EveryPolygonOriented ==
    (PolygonDone /\ AllAdmitted(input.v)) => ShoelaceOriented(once.v)

\* C1, amended: every simple ring of P comes out in the wanted order by the
\* sign of the shoelace sum: the exterior clockwise (negative), an interior
\* counter-clockwise (positive).  A ring that is not simple (degenerate,
\* self-touching or self-crossing) carries no such guarantee.
C1_SimpleRingsOriented ==
    PolygonDone =>
        /\ Len(once.v.interiors) = Len(input.v.interiors)
        /\ \A k \in RingIds(input.v) :
              IsSimple(RingAt(input.v, k)) =>
                  Sign(shoelace(RingAt(once.v, k))) = Wanted(k)

\* a polygon whose simple exterior and simple hole were both wound the wrong
\* way comes out with both in the wanted order
C1_Witness ==
    /\ PolygonDone
    /\ Len(input.v.interiors) >= 1
    /\ \A k \in 0..1 :
          /\ IsSimple(RingAt(input.v, k))
          /\ Sign(shoelace(RingAt(input.v, k))) = -Wanted(k)
          /\ Sign(shoelace(RingAt(once.v, k))) = Wanted(k)

\* C2, as stated: normalizing twice gives the same polygon as normalizing
\* once, for every polygon; here already for the polygons whose rings are all
\* closed rings of at least three distinct vertices.
C2_Idempotent ==
    (pc = "twice" /\ input.tag = "Polygon" /\ AllAdmitted(input.v)) => twice = once

\* C2, amended: normalizing twice gives the same polygon as normalizing once
\* for every polygon none of whose rings comes back to its lexicographically
\* least coordinate after leaving it (every simple ring is such a ring).
C2_IdempotentLeastOnce ==
    (/\ pc = "twice"
     /\ input.tag = "Polygon"
     /\ \A k \in RingIds(input.v) : LeastVisitedOnce(RingAt(input.v, k)))
    => twice = once

\* the first call reversed the exterior and a hole of such a polygon, and the
\* second call changed nothing
C2_Witness ==
    /\ pc = "twice"
    /\ input.tag = "Polygon"
    /\ \A k \in RingIds(input.v) : LeastVisitedOnce(RingAt(input.v, k))
    /\ Len(input.v.interiors) >= 1
    /\ once.v.exterior # input.v.exterior
    /\ once.v.interiors[1] # input.v.interiors[1]
    /\ twice = once

\* C3: Polygon::normalized keeps the number and positions of the interior
\* rings, and every ring keeps its length, its coordinates with their
\* multiplicities, and its closure.
C3_ShapePreserved ==
    PolygonDone =>
        /\ Len(once.v.interiors) = Len(input.v.interiors)
        /\ \A k \in RingIds(input.v) :
              /\ Len(RingAt(once.v, k)) = Len(RingAt(input.v, k))
              /\ SameCoords(RingAt(once.v, k), RingAt(input.v, k))
              /\ is_closed(RingAt(input.v, k)) => is_closed(RingAt(once.v, k))

\* a polygon with two holes on different coordinates whose exterior and first
\* hole were reversed
C3_Witness ==
    /\ PolygonDone
    /\ Len(input.v.interiors) >= 2
    /\ ~SameCoords(input.v.interiors[1], input.v.interiors[2])
    /\ once.v.exterior # input.v.exterior
    /\ once.v.interiors[1] # input.v.interiors[1]
    /\ is_closed(once.v.exterior)

\* C4, as stated: a polygon whose exterior is already clockwise and whose
\* interiors are already counter-clockwise (by the shoelace sign that defines
\* the orientation) is returned value-equal.
C4_NoOpOnShoelaceOriented ==
    (PolygonDone /\ ShoelaceOriented(input.v)) => once.v = input.v

\* C4, amended: a polygon is returned value-equal when the winding test the
\* code consults (the turn at the ring's least coordinate) finds its exterior
\* clockwise and its interiors counter-clockwise; for simple rings that is
\* when the shoelace sign says so.
C4_NoOpOnOriented ==
    PolygonDone =>
        /\ (\A k \in RingIds(input.v) :
                winding_order(RingAt(input.v, k)) = WantedOrder(k))
            => once.v = input.v
        /\ (AllSimple(input.v) /\ ShoelaceOriented(input.v)) => once.v = input.v

\* a correctly wound simple polygon with a hole came back unchanged
C4_Witness ==
    /\ PolygonDone
    /\ Len(input.v.interiors) >= 1
    /\ AllSimple(input.v)
    /\ ShoelaceOriented(input.v)
    /\ once.v = input.v

\* C5, as stated: MultiPolygon::normalized keeps the number of polygons, its
\* i-th polygon is the i-th polygon normalized, every element has a clockwise
\* exterior and counter-clockwise interiors (here: every element whose rings
\* are closed rings of at least three distinct vertices), and a correct
\* polygon and a wrongly wound version of it come out value-equal.
C5_EveryElementOriented ==
    MultiPolygonDone =>
        /\ Len(once.v) = Len(input.v)
        /\ \A i \in 1..Len(input.v) :
              /\ once.v[i] = PolygonNormalized(input.v[i])
              /\ AllAdmitted(input.v[i]) => ShoelaceOriented(once.v[i])
        /\ \A i, j \in 1..Len(input.v) :
              (ShoelaceOriented(input.v[i]) /\ Rewound(input.v[j], input.v[i]))
                  => once.v[i] = once.v[j]

\* C5, amended: MultiPolygon::normalized keeps the number of polygons, its
\* i-th polygon is the i-th polygon normalized, every simple ring of every
\* element comes out in the wanted order, and a correct polygon of simple
\* rings and a wrongly wound version of it come out value-equal.
C5_ElementsMappedInOrder ==
    MultiPolygonDone =>
        /\ Len(once.v) = Len(input.v)
        /\ \A i \in 1..Len(input.v) :
              /\ once.v[i] = PolygonNormalized(input.v[i])
              /\ Len(once.v[i].interiors) = Len(input.v[i].interiors)
              /\ \A k \in RingIds(input.v[i]) :
                    IsSimple(RingAt(input.v[i], k)) =>
                        Sign(shoelace(RingAt(once.v[i], k))) = Wanted(k)
        /\ \A i, j \in 1..Len(input.v) :
              (/\ AllSimple(input.v[i])
               /\ ShoelaceOriented(input.v[i])
               /\ Rewound(input.v[j], input.v[i]))
                  => (once.v[i] = input.v[i] /\ once.v[j] = input.v[i])

\* a multi-polygon of a correct polygon with a hole and the same polygon with
\* both rings wound the other way came out as twice the correct polygon
C5_Witness ==
    /\ MultiPolygonDone
    /\ Len(input.v) = 2
    /\ Len(input.v[1].interiors) = 1
    /\ AllSimple(input.v[1])
    /\ ShoelaceOriented(input.v[1])
    /\ Rewound(input.v[2], input.v[1])
    /\ input.v[2].exterior # input.v[1].exterior
    /\ input.v[2].interiors[1] # input.v[1].interiors[1]
    /\ once.v[1] = input.v[1]
    /\ once.v[2] = input.v[1]

\* C6: GeometryCollection::normalized keeps the length, and at each index the
\* variant; a Polygon is replaced by that polygon normalized, a MultiPolygon
\* by that multi-polygon normalized, and any other variant is value-equal.
C6_CollectionDispatch ==
    CollectionDone =>
        /\ Len(once.v) = Len(input.v)
        /\ \A i \in 1..Len(input.v) :
              /\ once.v[i].tag = input.v[i].tag
              /\ input.v[i].tag = "Polygon" =>
                    /\ once.v[i].v = PolygonNormalized(input.v[i].v)
                    /\ IsSimple(input.v[i].v.exterior) =>
                          shoelace(once.v[i].v.exterior) < 0
              /\ input.v[i].tag = "MultiPolygon" =>
                    /\ once.v[i].v = MultiPolygonNormalized(input.v[i].v)
                    /\ \A j \in 1..Len(input.v[i].v) :
                          IsSimple(input.v[i].v[j].exterior) =>
                              shoelace(once.v[i].v[j].exterior) < 0
              /\ input.v[i].tag \notin {"Polygon", "MultiPolygon"} =>
                    once.v[i] = input.v[i]

\* a collection of a wrongly wound polygon and a line string: the polygon was
\* rewound and the line string, on the same coordinates, was not
C6_Witness ==
    /\ CollectionDone
    /\ Len(input.v) = 2
    /\ input.v[1].tag = "LineString"
    /\ input.v[2].tag = "Polygon"
    /\ input.v[2].v.exterior = close(input.v[1].v)
    /\ once.v[2].v.exterior = Reverse(input.v[2].v.exterior)
    /\ once.v[2] # input.v[2]
    /\ once.v[1] = input.v[1]

\* C7: a GeometryCollection nested in a collection is returned unchanged at
\* its index: its own polygons and multi-polygons keep their winding.
C7_NestedUntouched ==
    CollectionDone =>
        \A i \in 1..Len(input.v) :
            input.v[i].tag = "GeometryCollection" =>
                /\ Len(once.v) >= i
                /\ once.v[i].tag = "GeometryCollection"
                /\ once.v[i].v = input.v[i].v

\* a collection of a wrongly wound polygon and a nested collection holding
\* that same polygon: the top-level one was rewound, the nested one kept its
\* counter-clockwise exterior
C7_Witness ==
    /\ CollectionDone
    /\ Len(input.v) = 2
    /\ input.v[1].tag = "Polygon"
    /\ input.v[2].tag = "GeometryCollection"
    /\ input.v[2].v = <<input.v[1]>>
    /\ IsSimple(input.v[1].v.exterior)
    /\ shoelace(input.v[1].v.exterior) > 0
    /\ shoelace(once.v[1].v.exterior) < 0
    /\ shoelace(once.v[2].v[1].v.exterior) > 0

\* C8: normalized() returns a value on every Polygon, MultiPolygon and
\* GeometryCollection: no call reaches an unwrap() of None.
C8_NeverPanics ==
    /\ panicked = FALSE
    /\ pc # "aborted"
    /\ pc \in {"once", "twice"} => once.tag = input.tag
    /\ pc = "twice" => twice.tag = input.tag

\* both calls returned on a collection that holds a Polygon and a
\* MultiPolygon, the two variants whose payload is extracted
C8_Witness ==
    /\ pc = "twice"
    /\ input.tag = "GeometryCollection"
    /\ Len(input.v) = 2
    /\ input.v[1].tag = "MultiPolygon"
    /\ Len(input.v[1].v) = 1
    /\ input.v[2].tag = "Polygon"
    /\ panicked = FALSE

\* C9, as stated: the exterior comes out as its exact reversal if it is not
\* clockwise and unchanged otherwise; an interior comes out as its exact
\* reversal if it is not counter-clockwise and unchanged otherwise
\* (orientation by the sign of the shoelace sum); here already for the
\* polygons whose rings are all closed rings of at least three distinct
\* vertices.
C9_ReversedUnlessOriented ==
    (PolygonDone /\ AllAdmitted(input.v)) =>
        /\ Len(once.v.interiors) = Len(input.v.interiors)
        /\ \A k \in RingIds(input.v) :
              RingAt(once.v, k) =
                  IF Sign(shoelace(RingAt(input.v, k))) = Wanted(k)
                  THEN RingAt(input.v, k)
                  ELSE Reverse(RingAt(input.v, k))

\* C9, amended: each ring is decided on its own.  The exterior comes out as
\* its exact reversal if the winding test finds it counter-clockwise and
\* unchanged otherwise (clockwise, or without an order); an interior comes out
\* as its exact reversal if the test finds it clockwise and unchanged
\* otherwise.  For a simple ring the test is the sign of the shoelace sum.  A
\* ring still starts and ends at the vertex it started at.
C9_ReversedIfOpposite ==
    PolygonDone =>
        /\ Len(once.v.interiors) = Len(input.v.interiors)
        /\ \A k \in RingIds(input.v) :
              LET ring == RingAt(input.v, k)
                  out  == RingAt(once.v, k)
              IN  /\ out = IF winding_order(ring) = UnwantedOrder(k)
                           THEN Reverse(ring) ELSE ring
                  /\ IsSimple(ring) =>
                        out = IF Sign(shoelace(ring)) = Wanted(k)
                              THEN ring ELSE Reverse(ring)
                  /\ Len(ring) > 0 => (out[1] = ring[1] /\ out[Len(out)] = ring[1])

\* a correctly wound simple exterior stayed as it was while, of its two
\* holes, one was reversed and the other, already counter-clockwise, was not
C9_Witness ==
    /\ PolygonDone
    /\ Len(input.v.interiors) = 2
    /\ AllSimple(input.v)
    /\ shoelace(input.v.exterior) < 0
    /\ once.v.exterior = input.v.exterior
    /\ shoelace(input.v.interiors[1]) < 0
    /\ once.v.interiors[1] = Reverse(input.v.interiors[1])
    /\ once.v.interiors[1] # input.v.interiors[1]
    /\ shoelace(input.v.interiors[2]) > 0
    /\ once.v.interiors[2] = input.v.interiors[2]

\* C10, as stated: a ring whose shoelace sum is zero is returned in its
\* original vertex order, as the exterior and as an interior ring.
C10_ZeroShoelaceUnchanged ==
    PolygonDone =>
        /\ Len(once.v.interiors) = Len(input.v.interiors)
        /\ \A k \in RingIds(input.v) :
              shoelace(RingAt(input.v, k)) = 0 =>
                  RingAt(once.v, k) = RingAt(input.v, k)

\* C10, amended: a ring whose vertices all lie on one line (fewer than three
\* distinct vertices included) has no winding order and is returned in its
\* original vertex order, as the exterior and as an interior ring.
C10_CollinearUnchanged ==
    PolygonDone =>
        /\ Len(once.v.interiors) = Len(input.v.interiors)
        /\ \A k \in RingIds(input.v) :
              AllCollinear(RingAt(input.v, k)) =>
                  /\ winding_order(RingAt(input.v, k)) = None
                  /\ RingAt(once.v, k) = RingAt(input.v, k)

\* a polygon whose exterior and hole each go through three distinct
\* coordinates of one line, and neither reads the same backwards, came back
\* unchanged
C10_Witness ==
    /\ PolygonDone
    /\ Len(input.v.interiors) = 1
    /\ \A k \in 0..1 :
          /\ AllCollinear(RingAt(input.v, k))
          /\ Cardinality(CoordsOf(RingAt(input.v, k))) >= 3
          /\ Len(RingAt(input.v, k)) >= 4
          /\ Reverse(RingAt(input.v, k)) # RingAt(input.v, k)
          /\ RingAt(once.v, k) = RingAt(input.v, k)

----------------------------------------------------------------------------
(* Checks of the model itself *)

TypeOK ==
    /\ pc \in {"input", "once", "twice", "aborted"}
    /\ panicked \in BOOLEAN

\* the assertions of the tests of lib.rs (lines 118-161): good and bad both
\* normalize to good
TestsPass ==
    /\ PolygonDone =>
          \A t \in TestPairs : input.v \in {t.good, t.bad} => once.v = t.good
    /\ (MultiPolygonDone /\ Len(input.v) = 2
            /\ input.v[2] = get_bad_outer_good_inner_poly.bad) =>
          \A i \in 1..2 : once.v[i] = get_bad_outer_good_inner_poly.good

=============================================================================
